---- MODULE Spec2Model ----
(***************************************************************************)
(* mail-sort: a daemon that watches an IMAP inbox, derives a destination   *)
(* mailbox from the X-Pm-Original-To address of every message, creates     *)
(* and subscribes missing mailboxes, moves the messages and spawns a       *)
(* Pushover notification.  The model follows src/src/main.rs and           *)
(* src/src/config.rs.                                                      *)
(*                                                                         *)
(* Rust strings are modelled as sequences of one-character strings, so     *)
(* that splitting, replacing and lower-casing are computed character by    *)
(* character as the code computes them.                                    *)
(***************************************************************************)
EXTENDS Integers, Sequences, FiniteSets, TLC

VARIABLES
    pc,        \* position of main / sort_mail
    existing,  \* sort_mail: `existing`, the snapshot returned by mailboxes()
    fetches,   \* sort_inbox: the messages returned by uid_fetch in this pass
    sorted,    \* sort_mail: `sorted`, mailbox path -> set of uids
    todo,      \* sort_mail: keys of `sorted` the for loop has not yet visited
    cur,       \* sort_mail: `mailbox` of the running loop iteration
    subs,      \* sort_mail: what is left of with_parents(mailbox) to subscribe
    calls,     \* session calls issued by the current pass, in order
    passRes,   \* result of the last sort_mail call ("none" before the first)
    passes,    \* number of sort_mail calls made by main
    waits,     \* number of idle waits that have returned
    changes,   \* number of waits that returned MailboxChanged
    lastWait,  \* outcome of the last wait
    tasks,     \* notifier tasks handed to tokio::spawn, in spawn order
    fn,        \* pure-function harness: which function has been applied
    arg,       \* pure-function harness: the input string
    ret        \* pure-function harness: the value returned

vars == << pc, existing, fetches, sorted, todo, cur, subs, calls, passRes,
           passes, waits, changes, lastWait, tasks, fn, arg, ret >>

mainVars == << pc, existing, fetches, sorted, todo, cur, subs, calls, passRes,
               passes, waits, changes, lastWait, tasks >>

fnVars == << fn, arg, ret >>

(***************************************************************************)
(* Bounds                                                                  *)
(***************************************************************************)
MaxMsgs == 2        \* messages uid_fetch returns in one pass
MaxWaits == 2       \* idle waits that return
MaxPasses == 2      \* sort passes
MaxLen == 5         \* length of the strings given to the pure functions

(***************************************************************************)
(* Strings                                                                 *)
(***************************************************************************)
Dot == "."
At == "@"
Underscore == "_"

\* char::to_lowercase for the letters the model uses
LowerChar(c) ==
    CASE c = "A" -> "a"
      [] c = "B" -> "b"
      [] OTHER -> c

\* str::to_lowercase
to_lowercase(s) == [i \in 1..Len(s) |-> LowerChar(s[i])]

\* position of the first occurrence of c in s, 0 when there is none
FirstIndex(s, c) ==
    IF \E i \in 1..Len(s) : s[i] = c
    THEN CHOOSE i \in 1..Len(s) : s[i] = c /\ \A j \in 1..(i - 1) : s[j] # c
    ELSE 0

\* str::split(c): always at least one part; "" splits to [""]
RECURSIVE split(_, _)
split(s, c) ==
    LET k == FirstIndex(s, c)
    IN  IF k = 0
        THEN << s >>
        ELSE << SubSeq(s, 1, k - 1) >> \o split(SubSeq(s, k + 1, Len(s)), c)

\* [&str]::join(c)
RECURSIVE join(_, _)
join(parts, c) ==
    IF Len(parts) = 0 THEN << >>
    ELSE IF Len(parts) = 1 THEN parts[1]
    ELSE parts[1] \o << c >> \o join(Tail(parts), c)

\* address.splitn(2, "@"): one part when there is no '@', else the text before
\* the first '@' and everything after it
splitn2(address) ==
    LET k == FirstIndex(address, At)
    IN  IF k = 0
        THEN << address >>
        ELSE << SubSeq(address, 1, k - 1), SubSeq(address, k + 1, Len(address)) >>

\* the loop over domain.chars(): '.' is pushed as '_', any other char as is
RECURSIVE push_domain(_)
push_domain(domain) ==
    IF Len(domain) = 0 THEN << >>
    ELSE << IF Head(domain) = Dot THEN Underscore ELSE Head(domain) >>
         \o push_domain(Tail(domain))

\* the mutant: the localpart's dots are replaced as the domain's are
mailbox_from_dots(address) ==
    LET parts == splitn2(address)
        localpart == parts[1]
        name == IF Len(parts) = 2 THEN push_domain(parts[2]) ELSE << >>
    IN  to_lowercase(name \o << Dot >> \o push_domain(localpart))

\* Converts email address in to a mailbox name
mailbox_from(address) ==
    LET parts == splitn2(address)
        localpart == parts[1]
        name == IF Len(parts) = 2 THEN push_domain(parts[2]) ELSE << >>
    IN  to_lowercase(name \o << Dot >> \o localpart)

\* the mutant: the range 1..parts.len() taken exclusive, the full path lost
with_parents_short(mailbox) ==
    LET parts == split(mailbox, Dot)
    IN  [i \in 1..(Len(parts) - 1) |-> join(SubSeq(parts, 1, i), Dot)]

\* Returns all parent mailboxes "foo.bar.baz" -> "foo", "foo.bar", "foo.bar.baz"
with_parents(mailbox) ==
    LET parts == split(mailbox, Dot)
    IN  [i \in 1..Len(parts) |-> join(SubSeq(parts, 1, i), Dot)]

(***************************************************************************)
(* What the session returns                                                *)
(***************************************************************************)
\* recipient addresses found in the inbox: A@x.y and a.b@x.y
AddrA == << "A", "@", "x", ".", "y" >>
AddrAB == << "a", ".", "b", "@", "x", ".", "y" >>

\* mailbox names that list() may report next to INBOX
BoxXY == << "x", "_", "y" >>
BoxXYA == << "x", "_", "y", ".", "a" >>
BoxXYAB == << "x", "_", "y", ".", "a", ".", "b" >>
Inbox == << "I", "N", "B", "O", "X" >>

\* session.list(Some(""), Some("*")): the names of the mailboxes on the server
ListResults ==
    { {Inbox}, {Inbox, BoxXY}, {Inbox, BoxXY, BoxXYA},
      {Inbox, BoxXY, BoxXYA, BoxXYAB} }

\* mailparse::MailAddr: a single address or a group
Single(a) == [group |-> FALSE, addr |-> a]
Group == [group |-> TRUE, addr |-> << >>]

\* what get_first_value("X-Pm-Original-To") and addrparse make of a header
\* block: no such field, a value addrparse rejects, or the parsed list
NoField == [kind |-> "nofield", list |-> << >>]
Garbage == [kind |-> "garbage", list |-> << >>]
Parsed(l) == [kind |-> "list", list |-> l]

HeaderValues ==
    { NoField, Garbage, Parsed(<< >>), Parsed(<< Group >>),
      Parsed(<< Group, Single(AddrA) >>),
      Parsed(<< Single(AddrA) >>), Parsed(<< Single(AddrAB) >>) }

\* one imap Fetch: header() is None ("none"), bytes parse_headers rejects
\* ("bad") or a header block ("ok"); uid 0 stands for fetch.uid = None.
\* The server numbers the messages of a mailbox with distinct uids.
FetchesAt(i) ==
    { [header |-> "none", uid |-> i, value |-> NoField],
      [header |-> "bad", uid |-> i, value |-> NoField],
      [header |-> "ok", uid |-> 0, value |-> NoField] }
    \cup { [header |-> "ok", uid |-> i, value |-> v] : v \in HeaderValues }

\* session.uid_fetch("1:*", ...): every message of the inbox
FetchResults ==
    UNION { { f \in [1..n -> UNION { FetchesAt(i) : i \in 1..n }] :
                \A i \in 1..n : f[i] \in FetchesAt(i) } : n \in 0..MaxMsgs }

(***************************************************************************)
(* sort_inbox                                                              *)
(***************************************************************************)
EmptySorted == [m \in {} |-> {}]

\* AddressList::extract_single_info: the address when the list holds exactly
\* one entry and that entry is a single address
HasSingleInfo(list) == Len(list) = 1 /\ ~list[1].group

\* the mutant: a missing header block or uid skips the message
fetch_error_lenient(f) ==
    IF f.header = "bad" THEN "Parse"
    ELSE IF f.header = "ok" /\ f.uid # 0 /\ f.value.kind = "garbage" THEN "Parse"
    ELSE "Ok"

\* the error one loop iteration of sort_inbox returns with `?`, "Ok" if none:
\* header().ok_or(MissingHeader)?, parse_headers()?, uid.ok_or(MissingUid)?,
\* addrparse()?
fetch_error(f) ==
    IF f.header = "none" THEN "MissingHeader"
    ELSE IF f.header = "bad" THEN "Parse"
    ELSE IF f.uid = 0 THEN "MissingUid"
    ELSE IF f.value.kind = "garbage" THEN "Parse"
    ELSE "Ok"

\* the mutant: the uid is also put into every bucket that exists already
insert_uid_all(s, mailbox, uid) ==
    [m \in DOMAIN s \cup {mailbox} |->
        IF m \in DOMAIN s THEN s[m] \cup {uid} ELSE {uid}]

\* sorted.entry(mailbox).or_insert(HashSet::default()).insert(uid)
insert_uid(s, mailbox, uid) ==
    [m \in DOMAIN s \cup {mailbox} |->
        IF m = mailbox
        THEN (IF m \in DOMAIN s THEN s[m] ELSE {}) \cup {uid}
        ELSE s[m]]

\* the body of the for loop over the fetches, from message i on
RECURSIVE scan(_, _, _)
scan(fs, i, s) ==
    IF i > Len(fs) THEN [err |-> "Ok", sorted |-> s]
    ELSE IF fetch_error(fs[i]) # "Ok"
    THEN [err |-> fetch_error(fs[i]), sorted |-> EmptySorted]
    ELSE IF fs[i].header = "ok" /\ fs[i].value.kind = "list"
            /\ HasSingleInfo(fs[i].value.list)
    THEN scan(fs, i + 1,
              insert_uid(s, mailbox_from(fs[i].value.list[1].addr), fs[i].uid))
    ELSE scan(fs, i + 1, s)

sort_inbox(fs) == scan(fs, 1, EmptySorted)

(***************************************************************************)
(* main and sort_mail                                                      *)
(***************************************************************************)
NoBox == << >>

Call(op, a, ok) == [op |-> op, arg |-> a, ok |-> ok]

Exited == {"exit_ok", "exit_err", "panic"}

\* the mutant: main goes on waiting after a failed pass
OnSortResultRetry(res) == "idle"

\* main, `sort_mail(..)?`: an Err returns from main, Ok goes on to the loop
OnSortResult(res) == IF res = "Ok" THEN "idle" ELSE "exit_err"

\* the mutant: a timeout sorts the mail as a change does
OnWaitOutcomeSortAlways(o) ==
    CASE o = "TimedOut" -> "list"
      [] o = "MailboxChanged" -> "list"
      [] OTHER -> "logout"

\* the mutant: a failed wait is retried
OnWaitOutcomeRetry(o) ==
    CASE o = "TimedOut" -> "idle"
      [] o = "MailboxChanged" -> "list"
      [] OTHER -> "idle"

\* main, `match result`: continue / sort_mail / break
OnWaitOutcome(o) ==
    CASE o = "TimedOut" -> "idle"
      [] o = "MailboxChanged" -> "list"
      [] OTHER -> "logout"

\* the mutant: a mailbox is created when the snapshot already holds it
NeedsCreateInverted(mailbox, ex) == mailbox \in ex

\* sort_mail, `if !existing.contains(mailbox)`
NeedsCreate(mailbox, ex) == mailbox \notin ex

\* the mutant: only the mailbox itself is subscribed
SubscribePathsLeaf(mailbox) == << mailbox >>

\* sort_mail, `for path in with_parents(mailbox)`
SubscribePaths(mailbox) == with_parents(mailbox)

\* main calls sort_mail: fresh locals
EnterSort ==
    /\ pc' = "list"
    /\ passes' = passes + 1
    /\ passRes' = "running"
    /\ existing' = {}
    /\ fetches' = << >>
    /\ sorted' = EmptySorted
    /\ todo' = {}
    /\ cur' = NoBox
    /\ subs' = << >>
    /\ calls' = << >>

\* a `?` inside sort_mail: the failed call is the last one, sort_mail returns
\* Err(e) and main handles the result
PassFails(failed, e) ==
    /\ calls' = Append(calls, failed)
    /\ passRes' = e
    /\ pc' = OnSortResult(e)

\* the mutant: a failed move is noted and the loop goes on with the next bucket
MoveFailsContinue(mailbox) ==
    /\ calls' = Append(calls, Call("move", mailbox, FALSE))
    /\ todo' = todo \ {mailbox}
    /\ cur' = NoBox
    /\ pc' = "loop"
    /\ UNCHANGED passRes

\* sort_mail, `session.uid_mv(&ids_string, mailbox)?` returning Err
MoveFails(mailbox) ==
    /\ PassFails(Call("move", mailbox, FALSE), "Imap")
    /\ UNCHANGED << todo, cur >>

\* the server's answer to CREATE for a mailbox that exists by now, created by
\* someone else after list() took the snapshot
CallExists(a) == [op |-> "create", arg |-> a, ok |-> FALSE, exists |-> TRUE]

\* sort_mail, `session.create(mailbox)?` returning the already-exists error:
\* like any other error it is returned with `?`
CreateAlreadyExists(mailbox) ==
    /\ PassFails(CallExists(mailbox), "Imap")
    /\ UNCHANGED subs

\* main line 38: the initial sort
InitialSort ==
    /\ pc = "start"
    /\ EnterSort
    /\ UNCHANGED << waits, changes, lastWait, tasks, fnVars >>

\* sort_mail line 81: existing = mailboxes(session)?
Mailboxes ==
    /\ pc = "list"
    /\ \/ \E ex \in ListResults :
            /\ existing' = ex
            /\ calls' = Append(calls, Call("list", NoBox, TRUE))
            /\ pc' = "fetch"
            /\ UNCHANGED passRes
       \/ /\ PassFails(Call("list", NoBox, FALSE), "Imap")
          /\ UNCHANGED existing
    /\ UNCHANGED << fetches, sorted, todo, cur, subs, passes, waits, changes,
                    lastWait, tasks, fnVars >>

\* sort_inbox line 123: fetches = session.uid_fetch("1:*", ...)?
Fetch ==
    /\ pc = "fetch"
    /\ \/ \E fs \in FetchResults :
            /\ fetches' = fs
            /\ calls' = Append(calls, Call("fetch", NoBox, TRUE))
            /\ pc' = "scan"
            /\ UNCHANGED passRes
       \/ /\ PassFails(Call("fetch", NoBox, FALSE), "Imap")
          /\ UNCHANGED fetches
    /\ UNCHANGED << existing, sorted, todo, cur, subs, passes, waits, changes,
                    lastWait, tasks, fnVars >>

\* sort_inbox lines 124-140 and sort_mail line 82: the loop over the fetches;
\* an error returns through both `?`, else `fetches` is dropped and the loop
\* of sort_mail starts on `sorted`
Scan ==
    /\ pc = "scan"
    /\ LET r == sort_inbox(fetches)
       IN  IF r.err = "Ok"
           THEN /\ sorted' = r.sorted
                /\ todo' = DOMAIN r.sorted
                /\ fetches' = << >>
                /\ pc' = "loop"
                /\ UNCHANGED << passRes, calls >>
           ELSE /\ passRes' = r.err
                /\ pc' = OnSortResult(r.err)
                /\ UNCHANGED << sorted, todo, fetches, calls >>
    /\ UNCHANGED << existing, cur, subs, passes, waits, changes, lastWait,
                    tasks, fnVars >>

\* sort_mail lines 83-85: the loop takes a mailbox the snapshot lacks (a HashMap
\* iterates in any order) and creates it
Create ==
    /\ pc = "loop"
    /\ \E mailbox \in todo :
        /\ NeedsCreate(mailbox, existing)
        /\ cur' = mailbox
        /\ \/ /\ calls' = Append(calls, Call("create", mailbox, TRUE))
              /\ subs' = SubscribePaths(mailbox)
              /\ pc' = IF SubscribePaths(mailbox) = << >> THEN "move" ELSE "subscribe"
              /\ UNCHANGED passRes
           \/ /\ PassFails(Call("create", mailbox, FALSE), "Imap")
              /\ UNCHANGED subs
           \/ CreateAlreadyExists(mailbox)
    /\ UNCHANGED << existing, fetches, sorted, todo, passes, waits, changes,
                    lastWait, tasks, fnVars >>

\* sort_mail lines 86-88: session.subscribe(path)? for the next path
Subscribe ==
    /\ pc = "subscribe"
    /\ subs # << >>
    /\ \/ /\ calls' = Append(calls, Call("subscribe", Head(subs), TRUE))
          /\ subs' = Tail(subs)
          /\ pc' = IF Tail(subs) = << >> THEN "move" ELSE "subscribe"
          /\ UNCHANGED passRes
       \/ /\ PassFails(Call("subscribe", Head(subs), FALSE), "Imap")
          /\ UNCHANGED subs
    /\ UNCHANGED << existing, fetches, sorted, todo, cur, passes, waits,
                    changes, lastWait, tasks, fnVars >>

\* the uid_mv call for `mailbox`
MoveOf(mailbox) ==
    \/ /\ calls' = Append(calls, Call("move", mailbox, TRUE))
       /\ todo' = todo \ {mailbox}
       /\ cur' = NoBox
       /\ pc' = "loop"
       /\ UNCHANGED passRes
    \/ MoveFails(mailbox)

\* sort_mail lines 91-97: session.uid_mv(&ids_string, mailbox)?, either after
\* the mailbox was created and subscribed or at once for one the snapshot holds
Move ==
    /\ \/ /\ pc = "move"
          /\ MoveOf(cur)
       \/ /\ pc = "loop"
          /\ \E mailbox \in todo :
                /\ ~NeedsCreate(mailbox, existing)
                /\ MoveOf(mailbox)
    /\ UNCHANGED << existing, fetches, sorted, subs, passes, waits, changes,
                    lastWait, tasks, fnVars >>

\* sort_mail lines 99-103: the loop is over, the notifier task is spawned with
\* the keys of `sorted`, sort_mail returns Ok(()) and its locals are dropped
Spawn ==
    /\ pc = "loop"
    /\ todo = {}
    /\ tasks' = Append(tasks, [touched |-> DOMAIN sorted, state |-> "spawned",
                               sends |-> 0])
    /\ passRes' = "Ok"
    /\ pc' = OnSortResult("Ok")
    /\ existing' = {}
    /\ sorted' = EmptySorted
    /\ calls' = << >>
    /\ UNCHANGED << fetches, todo, cur, subs, passes, waits, changes, lastWait,
                    fnVars >>

\* main lines 42-70: the idle wait returns `o` and main dispatches on it
Dispatch(o) ==
    /\ pc = "idle"
    /\ waits < MaxWaits
    /\ waits' = waits + 1
    /\ lastWait' = o
    /\ changes' = IF o = "MailboxChanged" THEN changes + 1 ELSE changes
    /\ IF OnWaitOutcome(o) = "list"
       THEN EnterSort
       ELSE /\ pc' = OnWaitOutcome(o)
            /\ UNCHANGED << existing, fetches, sorted, todo, cur, subs, calls,
                            passRes, passes >>
    /\ UNCHANGED << tasks, fnVars >>

IdleTimedOut == Dispatch("TimedOut")

IdleMailboxChanged == passes < MaxPasses /\ Dispatch("MailboxChanged")

IdleError == Dispatch("Err")

\* main line 72: session.logout().expect("logout"), then Ok(())
Logout ==
    /\ pc = "logout"
    /\ \/ /\ calls' = Append(calls, Call("logout", NoBox, TRUE))
          /\ pc' = "exit_ok"
       \/ /\ calls' = Append(calls, Call("logout", NoBox, FALSE))
          /\ pc' = "panic"
    /\ UNCHANGED << existing, fetches, sorted, todo, cur, subs, passRes, passes,
                    waits, changes, lastWait, tasks, fnVars >>

\* the mutant: the empty set is notified too
notify_sends_always(mailboxes) == 1

\* Pushover::notify: the number of send_pushover_request calls it makes:
\* none after the early return for an empty set, else one
notify_sends(mailboxes) == IF mailboxes = {} THEN 0 ELSE 1

\* the mutant: a failed delivery ends main
OnDeliveryFatal(res, p) == IF res = "failed" THEN "exit_err" ELSE p

\* Pushover::notify, `let _ = send_pushover_request(message).await`: the result
\* is dropped and nothing is handed back to main, which stays where it is
OnDelivery(res, p) == p

\* Pushover::notify run by a spawned task while the runtime lives: nothing for
\* an empty set, else one send_pushover_request that succeeds or fails
Notify ==
    /\ pc \notin Exited
    /\ \E i \in 1..Len(tasks) :
        /\ tasks[i].state = "spawned"
        /\ tasks' = [tasks EXCEPT ![i] =
                        [@ EXCEPT !.state = "returned",
                                  !.sends = notify_sends(tasks[i].touched)]]
        /\ \E res \in IF notify_sends(tasks[i].touched) = 0
                      THEN {"none"} ELSE {"ok", "failed"} :
                pc' = OnDelivery(res, pc)
    /\ UNCHANGED << existing, fetches, sorted, todo, cur, subs, calls,
                    passRes, passes, waits, changes, lastWait, fnVars >>

MainInit ==
    /\ pc = "start"
    /\ existing = {}
    /\ fetches = << >>
    /\ sorted = EmptySorted
    /\ todo = {}
    /\ cur = NoBox
    /\ subs = << >>
    /\ calls = << >>
    /\ passRes = "none"
    /\ passes = 0
    /\ waits = 0
    /\ changes = 0
    /\ lastWait = "none"
    /\ tasks = << >>

Init ==
    /\ MainInit
    /\ fn = "off"
    /\ arg = << >>
    /\ ret = << >>

Next ==
    \/ InitialSort
    \/ Mailboxes
    \/ Fetch
    \/ Scan
    \/ Create
    \/ Subscribe
    \/ Move
    \/ Spawn
    \/ IdleTimedOut
    \/ IdleMailboxChanged
    \/ IdleError
    \/ Logout
    \/ Notify

Spec == Init /\ [][Next]_vars

\* main after `break`: nothing stands between the loop and session.logout(),
\* a blocking call that returns; main is never suspended ahead of it
SpecLive == Spec /\ WF_vars(Logout)

(***************************************************************************)
(* The pure functions applied to every string up to MaxLen                 *)
(***************************************************************************)
FnChars == {"a", "B", ".", "@"}

Strings == UNION { [1..n -> FnChars] : n \in 0..MaxLen }

InitFn ==
    /\ MainInit
    /\ fn = "none"
    /\ arg \in Strings
    /\ ret = << >>

ApplyMailboxFrom ==
    /\ fn = "none"
    /\ fn' = "mailbox_from"
    /\ ret' = mailbox_from(arg)
    /\ UNCHANGED << arg, mainVars >>

ApplyWithParents ==
    /\ fn = "none"
    /\ fn' = "with_parents"
    /\ ret' = with_parents(arg)
    /\ UNCHANGED << arg, mainVars >>

NextFn ==
    \/ ApplyMailboxFrom
    \/ ApplyWithParents

SpecFn == InitFn /\ [][NextFn]_vars

(***************************************************************************)
(* Properties of the pure functions (checked under SpecFn)                 *)
(***************************************************************************)
DotsOf(s) == { i \in 1..Len(s) : s[i] = Dot }

\* number of '.'-separated segments of s
Segments(s) == Cardinality(DotsOf(s)) + 1

ReplaceDots(s) == [i \in 1..Len(s) |-> IF s[i] = Dot THEN Underscore ELSE s[i]]

Lower(s) == [i \in 1..Len(s) |-> LowerChar(s[i])]

HasAt(s) == \E i \in 1..Len(s) : s[i] = At

\* local and domain of local@domain: the text before and after the first '@'
LocalOf(s) == SubSeq(s, 1, FirstIndex(s, At) - 1)
DomainOf(s) == SubSeq(s, FirstIndex(s, At) + 1, Len(s))

IsLetter(c) == c \notin {Dot, At}

\* one '@', and a local part and a domain that begin and end with a letter
ValidAddress(s) ==
    /\ Cardinality({ i \in 1..Len(s) : s[i] = At }) = 1
    /\ LocalOf(s) # << >> /\ DomainOf(s) # << >>
    /\ IsLetter(LocalOf(s)[1]) /\ IsLetter(LocalOf(s)[Len(LocalOf(s))])
    /\ IsLetter(DomainOf(s)[1]) /\ IsLetter(DomainOf(s)[Len(DomainOf(s))])

\* C7 as claimed: for every address local@domain, mailbox_from returns
\* lower(D + "." + L) with the dots of the domain AND of the local part
\* replaced by '_', so the path has exactly two '.'-separated segments.
C7_BothPartsReplaced ==
    (fn = "mailbox_from" /\ ValidAddress(arg)) =>
        /\ ret = Lower(ReplaceDots(DomainOf(arg)) \o << Dot >> \o ReplaceDots(LocalOf(arg)))
        /\ Segments(ret) = 2

\* C7 amended: for every address local@domain, mailbox_from returns
\* lower(D + "." + local) where D is the domain with every '.' replaced by '_'
\* and the local part keeps its own characters, dots included; the path has
\* one segment for the domain and one for each '.'-separated segment of the
\* local part, so exactly two only when the local part holds no '.'.
C7_DomainReplacedLocalKept ==
    (fn = "mailbox_from" /\ HasAt(arg)) =>
        /\ ret = Lower(ReplaceDots(DomainOf(arg)) \o << Dot >> \o LocalOf(arg))
        /\ Segments(ret) = 1 + Segments(LocalOf(arg))
        /\ (Segments(ret) = 2 <=> DotsOf(LocalOf(arg)) = {})

\* B.a@. becomes _.b.a: an upper-case letter and a dot in the local part, a
\* dot in the domain
C7_Witness ==
    /\ fn = "mailbox_from"
    /\ arg = << "B", ".", "a", "@", "." >>
    /\ ret = << "_", ".", "b", ".", "a" >>

\* the position just after the i-th segment of s: the i-th '.', or the end
SegmentEnd(s, i) ==
    IF i = Segments(s) THEN Len(s) + 1
    ELSE CHOOSE p \in DotsOf(s) : Cardinality({ q \in DotsOf(s) : q < p }) = i - 1

\* C8: for a path of n >= 1 '.'-separated segments with_parents yields exactly
\* n strings, the i-th being the path cut after its i-th segment, in strictly
\* increasing length with the full path last; for the empty string it yields
\* exactly one element, the empty string.
C8_WithParentsPrefixes ==
    fn = "with_parents" =>
        /\ Len(ret) = Segments(arg)
        /\ \A i \in 1..Len(ret) : ret[i] = SubSeq(arg, 1, SegmentEnd(arg, i) - 1)
        /\ \A i \in 1..(Len(ret) - 1) : Len(ret[i]) < Len(ret[i + 1])
        /\ ret[Len(ret)] = arg
        /\ (arg = << >> => ret = << << >> >>)

\* a.B.a yields a, a.B, a.B.a
C8_Witness ==
    /\ fn = "with_parents"
    /\ arg = << "a", ".", "B", ".", "a" >>
    /\ ret = << << "a" >>, << "a", ".", "B" >>, << "a", ".", "B", ".", "a" >> >>

(***************************************************************************)
(* Properties of the sort pass and of the loop (checked under Spec)        *)
(***************************************************************************)
CallIdx == 1..Len(calls)

ScanErrors == {"MissingHeader", "MissingUid", "Parse"}
PassErrors == ScanErrors \cup {"Imap"}

Mutating == {"create", "subscribe", "move"}

\* the elements of a sequence
Range(q) == { q[i] : i \in 1..Len(q) }

C2_OnePassPerChange ==
    [][ /\ (pc' = "start" => passes' = 0 /\ waits' = 0)
        /\ (pc' # "start" => passes' = changes' + 1)
        /\ (waits' # waits => pc = "idle" /\ waits' = waits + 1)
        /\ (passes' # passes =>
              /\ passes' = passes + 1
              /\ pc' = "list"
              /\ pc = "start" \/ (waits' # waits /\ lastWait' = "MailboxChanged"))
        /\ ((waits' # waits /\ lastWait' = "MailboxChanged") => passes' = passes + 1)
        /\ ((waits' # waits /\ lastWait' = "TimedOut") =>
              pc' = "idle" /\ passes' = passes /\ calls' = calls)
        /\ ((pc = "idle" /\ waits' = waits) => UNCHANGED << pc, passes, calls >>)
      ]_vars

\* a change, its sort pass, then a timeout: main waits again, two passes made
C2_Witness ==
    /\ pc = "idle"
    /\ waits = 2
    /\ lastWait = "TimedOut"
    /\ changes = 1
    /\ passes = 2

\* C3: a sort pass that returns an error ends main: no wait, no sort pass and
\* no session call follows, the failed pass is not retried.
C3_FailedPassIsFatal ==
    [][ /\ (passRes' \in PassErrors => pc' = "exit_err")
        /\ (passRes \in PassErrors => UNCHANGED << pc, passes, waits, calls, passRes >>)
      ]_vars

\* the pass run after a change signal failed and main has returned
C3_Witness ==
    /\ pc = "exit_err"
    /\ passes = 2
    /\ changes = 1
    /\ passRes = "Imap"

\* the pass has returned (to main waiting, or with an error out of main)
PassOver == passRes \in PassErrors \cup {"Ok"}

FailedMoves == { k \in CallIdx : calls[k].op = "move" /\ ~calls[k].ok }

\* C4 as claimed: when the move of one bucket fails, the move is still
\* attempted for every other bucket of the Sort Result in that pass, and the
\* pass is reported as failed.
C4_OtherBucketsStillMoved ==
    (PassOver /\ FailedMoves # {}) =>
        /\ passRes \in PassErrors
        /\ \A m \in DOMAIN sorted : \E k \in CallIdx : calls[k].op = "move" /\ calls[k].arg = m

\* C4 amended: when the move of one bucket fails the pass is reported as
\* failed at once: the failed move is the last session call of the pass, and
\* the buckets the loop had not yet reached are neither created nor moved.
C4_FailedMoveEndsPass ==
    \A k \in FailedMoves :
        /\ k = Len(calls)
        /\ passRes = "Imap"
        /\ pc = "exit_err"
        /\ calls[k].arg \in todo
        /\ \A m \in todo \ {calls[k].arg} :
              \A j \in CallIdx : calls[j].op \in {"create", "move"} => calls[j].arg # m

\* the move to x_y.a failed while the bucket of x_y.a.b was still to come
C4_Witness ==
    /\ FailedMoves # {}
    /\ calls[Len(calls)] = Call("move", BoxXYA, FALSE)
    /\ BoxXYAB \in todo
    /\ passRes = "Imap"

\* the recipient value is present and addrparse rejects it, or it parses to
\* an empty list, or to a list whose first entry is a group
Unroutable(f) ==
    /\ f.header = "ok"
    /\ f.uid # 0
    /\ \/ f.value.kind = "garbage"
       \/ f.value.kind = "list" /\ f.value.list = << >>
       \/ f.value.kind = "list" /\ f.value.list # << >> /\ f.value.list[1].group

Routable(f) ==
    /\ f.header = "ok"
    /\ f.uid # 0
    /\ f.value.kind = "list"
    /\ Len(f.value.list) = 1
    /\ ~f.value.list[1].group

LacksHeader(f) == f.header = "none"
LacksUid(f) == f.header = "ok" /\ f.uid = 0
BadHeader(f) == f.header = "bad"

\* C5: a message whose recipient value fails address parsing, parses to an
\* empty list or has a group as first entry is only skipped: when every message
\* has its header block and uid the scan returns successfully, the skipped
\* message is in no bucket and every message with a single address is in the
\* bucket of its address.
C5_UnroutableOnlySkipped ==
    [][ ( /\ pc = "scan" /\ pc' # "scan"
          /\ \A i \in 1..Len(fetches) :
                ~LacksHeader(fetches[i]) /\ ~LacksUid(fetches[i]) /\ ~BadHeader(fetches[i])
          /\ \E i \in 1..Len(fetches) : Unroutable(fetches[i]) )
        => ( /\ pc' = "loop"
             /\ \A i \in 1..Len(fetches) :
                  /\ Unroutable(fetches[i]) =>
                        \A m \in DOMAIN sorted' : fetches[i].uid \notin sorted'[m]
                  /\ Routable(fetches[i]) =>
                        \E m \in DOMAIN sorted' : fetches[i].uid \in sorted'[m] )
      ]_vars

C9_BucketsDisjoint ==
    \A m1 \in DOMAIN sorted : \A m2 \in DOMAIN sorted :
        m1 # m2 => sorted[m1] \cap sorted[m2] = {}

\* two buckets, one message each
C9_Witness ==
    /\ DOMAIN sorted = {BoxXYA, BoxXYAB}
    /\ sorted[BoxXYA] # {}
    /\ sorted[BoxXYAB] # {}

\* the destination and all its ancestors are in the snapshot
FullyExisting(m) == Range(with_parents(m)) \subseteq existing

\* C10 as claimed: for a destination that is in the snapshot with all its
\* ancestors, the pass issues no create and no subscribe call for that path or
\* any of its ancestors.
C10_NoCallForExistingPath ==
    \A m \in DOMAIN sorted :
        FullyExisting(m) =>
            \A k \in CallIdx :
                calls[k].op \in {"create", "subscribe"} =>
                    calls[k].arg \notin Range(with_parents(m))

\* the last create call before call k, 0 when there is none
CreateBefore(k) ==
    IF \E c \in 1..(k - 1) : calls[c].op = "create"
    THEN CHOOSE c \in 1..(k - 1) :
            calls[c].op = "create" /\ \A j \in (c + 1)..(k - 1) : calls[j].op # "create"
    ELSE 0

\* C10 amended: for a destination that is in the snapshot with all its
\* ancestors, the pass issues no create call for that path or any of its
\* ancestors, and no create or subscribe call on behalf of that destination:
\* its move directly follows the fetch or the move of the previous bucket.  A
\* subscribe call for the path or one of its ancestors is issued only while
\* another destination, missing from the snapshot and lying below it, is
\* created.
C10_NoCallOnBehalfOfExisting ==
    \A m \in DOMAIN sorted :
        FullyExisting(m) =>
            \A k \in CallIdx :
                /\ calls[k].op = "create" => calls[k].arg \notin Range(with_parents(m))
                /\ (calls[k].op = "move" /\ calls[k].arg = m) =>
                        k > 1 /\ calls[k - 1].op \in {"fetch", "move"}
                /\ (calls[k].op = "subscribe" /\ calls[k].arg \in Range(with_parents(m))) =>
                        /\ CreateBefore(k) # 0
                        /\ calls[CreateBefore(k)].arg # m
                        /\ calls[CreateBefore(k)].arg \notin existing
                        /\ calls[CreateBefore(k)].arg \in DOMAIN sorted
                        /\ calls[k].arg \in Range(with_parents(calls[CreateBefore(k)].arg))

\* x_y.a is in the snapshot and has been moved to while x_y.a.b had to be
\* created and subscribed
C10_Witness ==
    /\ FullyExisting(BoxXYA)
    /\ BoxXYAB \notin existing
    /\ \E k \in CallIdx : calls[k] = Call("move", BoxXYA, TRUE)
    /\ \E k \in CallIdx : calls[k] = Call("subscribe", BoxXYAB, TRUE)

\* the create calls the server answered with already-exists
ExistsAnswers == { k \in CallIdx : calls[k].op = "create" /\ "exists" \in DOMAIN calls[k] }

\* C11: when a destination missing from the snapshot has been created by
\* someone else before the pass issues its create, so that create returns the
\* already-exists error, the pass does not fail: main does not exit on it and
\* once the pass is over the move to that path has been issued.
C11_ExternalCreateTolerated ==
    \A k \in ExistsAnswers :
        /\ passRes \notin PassErrors
        /\ pc \notin Exited
        /\ PassOver => \E j \in (k + 1)..Len(calls) :
                          calls[j].op = "move" /\ calls[j].arg = calls[k].arg

\* C12: every successful pass spawns one notifier task, and a task makes no
\* delivery call when its set of touched mailboxes is empty and exactly one
\* when it is not; no pass causes more than one delivery attempt.
C12_AtMostOneDeliveryPerPass ==
    /\ passes >= 1 => Len(tasks) = IF passRes = "Ok" THEN passes ELSE passes - 1
    /\ \A i \in 1..Len(tasks) :
        /\ tasks[i].sends <= 1
        /\ tasks[i].touched = {} => tasks[i].sends = 0
        /\ tasks[i].state = "spawned" => tasks[i].sends = 0
        /\ (tasks[i].state = "returned" /\ tasks[i].touched # {}) => tasks[i].sends = 1

\* two passes: the first touched nothing and its task returned without a
\* delivery, the second moved mail and its task made one delivery
C12_Witness ==
    /\ Len(tasks) = 2
    /\ tasks[1].touched = {} /\ tasks[1].state = "returned" /\ tasks[1].sends = 0
    /\ tasks[2].touched # {} /\ tasks[2].state = "returned" /\ tasks[2].sends = 1

(***************************************************************************)
(* Pushover::notify applied to every touched set and subscribed set        *)
(***************************************************************************)
BoxZB == << "z", ".", "b" >>

NotifyNames == {BoxXYA, BoxXYAB, BoxZB}

\* the separator of join(", ")
CommaSpace == << ",", " " >>

\* Vec<String>::join(sep)
RECURSIVE join_str(_, _)
join_str(parts, sep) ==
    IF Len(parts) = 0 THEN << >>
    ELSE IF Len(parts) = 1 THEN parts[1]
    ELSE parts[1] \o sep \o join_str(Tail(parts), sep)

\* the orders in which a HashSet may hand out its elements
IterOrders(S) ==
    { q \in [1..Cardinality(S) -> S] :
        \A i \in 1..Cardinality(S) : \A j \in 1..Cardinality(S) : i # j => q[i] # q[j] }

\* the mutant: normal priority whenever any mailbox is subscribed at all
notify_priority_any(subscribed, mailboxes) ==
    IF Cardinality(subscribed) > 0 THEN 0 ELSE -1

\* Pushover::notify lines 31-33: silent unless a subscribed mailbox was touched
notify_priority(subscribed, mailboxes) ==
    IF Cardinality(subscribed \cap mailboxes) > 0 THEN 0 ELSE -1

\* Pushover::notify line 34: mailboxes.into_iter().collect::<Vec<_>>().join(", ")
notify_text(order) == join_str(order, CommaSpace)

InitNotify ==
    /\ MainInit
    /\ fn = "none"
    /\ arg \in [mailboxes : SUBSET NotifyNames, subscribed : SUBSET NotifyNames]
    /\ ret = << >>

\* Pushover::notify(&self, mailboxes) with self.mailboxes = arg.subscribed
ApplyNotify ==
    /\ fn = "none"
    /\ fn' = "notify"
    /\ IF notify_sends(arg.mailboxes) = 0
       THEN ret' = [sends |-> 0, priority |-> 0, text |-> << >>]
       ELSE \E order \in IterOrders(arg.mailboxes) :
                ret' = [sends |-> notify_sends(arg.mailboxes),
                        priority |-> notify_priority(arg.subscribed, arg.mailboxes),
                        text |-> notify_text(order)]
    /\ UNCHANGED << arg, mainVars >>

NextNotify == ApplyNotify

SpecNotify == InitNotify /\ [][NextNotify]_vars

(***************************************************************************)
(* Properties of the notifier (checked under SpecNotify)                   *)
(***************************************************************************)
\* C13: for every non-empty touched set and every subscribed set the
\* notification is sent at normal priority (0) if and only if the two sets
\* have a mailbox in common, and at silent priority (-1) otherwise.
C13_PriorityIffIntersect ==
    (fn = "notify" /\ arg.mailboxes # {}) =>
        /\ ret.sends = 1
        /\ ret.priority \in {0, -1}
        /\ ret.priority = 0 <=> \E m \in arg.mailboxes : m \in arg.subscribed
        /\ ret.priority = -1 <=> \A m \in arg.mailboxes : m \notin arg.subscribed

\* x_y.a was touched, only z.b is subscribed: the notification is silent
C13_Witness ==
    /\ fn = "notify"
    /\ arg.mailboxes = {BoxXYA}
    /\ arg.subscribed = {BoxZB}
    /\ ret.sends = 1
    /\ ret.priority = -1

\* the code of a character (ASCII)
CharCode(c) ==
    CASE c = " " -> 32
      [] c = "," -> 44
      [] c = "." -> 46
      [] c = "_" -> 95
      [] c = "a" -> 97
      [] c = "b" -> 98
      [] c = "x" -> 120
      [] c = "y" -> 121
      [] c = "z" -> 122

\* s comes before t in the lexicographic order of strings
LexLess(s, t) ==
    \E k \in 1..(Len(t)) :
        /\ \A i \in 1..(k - 1) : i <= Len(s) /\ s[i] = t[i]
        /\ \/ k = Len(s) + 1
           \/ k <= Len(s) /\ CharCode(s[k]) < CharCode(t[k])

\* the names of S in lexicographic order
SortedNames(S) ==
    CHOOSE q \in IterOrders(S) :
        \A i \in 1..(Len(q) - 1) : LexLess(q[i], q[i + 1])

\* C14: for every non-empty touched set the notification text is the mailbox
\* names sorted lexicographically and joined with ", ", the same text for
\* every iteration order of the set.
C14_TextSorted ==
    (fn = "notify" /\ arg.mailboxes # {}) =>
        ret.text = join_str(SortedNames(arg.mailboxes), CommaSpace)

(***************************************************************************)
(* Properties of the notifier tasks and of termination (checked under Spec)*)
(***************************************************************************)
loopVars == << pc, existing, fetches, sorted, todo, cur, subs, calls, passRes,
               passes, waits, changes, lastWait >>

\* C15: the notifier runs detached: the pass that spawns it returns to the
\* wait with the task still in flight, the wait never depends on a task having
\* returned, and a notifier step, a failed delivery included, changes neither
\* the pass result nor anything else of the loop.
C15_NotifierDetached ==
    /\ [](pc = "idle" /\ waits < MaxWaits => ENABLED IdleTimedOut)
    /\ [][ /\ (Len(tasks') = Len(tasks) + 1 =>
                  pc' = "idle" /\ passRes' = "Ok"
                  /\ tasks'[Len(tasks')].state = "spawned")
           /\ ((Len(tasks') = Len(tasks) /\ tasks' # tasks) => UNCHANGED loopVars)
         ]_vars

\* main waits again after its second pass while the notifications of both
\* passes are still in flight
C15_Witness ==
    /\ pc = "idle"
    /\ passes = 2
    /\ Len(tasks) = 2
    /\ tasks[1].state = "spawned" /\ tasks[1].touched # {}
    /\ tasks[2].state = "spawned" /\ tasks[2].touched # {}

LogoutCalls == Cardinality({ i \in 1..Len(calls) : calls[i].op = "logout" })

\* C16: after a wait that returned an error there is no further wait and no
\* further sort pass, logout is attempted exactly once (none before main has
\* left, one after), and the process terminates.
C16_WaitErrorStopsLoop ==
    /\ [][ lastWait = "Err" =>
              /\ waits' = waits
              /\ passes' = passes
              /\ pc' \in {"logout"} \cup Exited ]_vars
    /\ [](lastWait = "Err" => /\ pc \in {"logout"} \cup Exited
                              /\ LogoutCalls = IF pc \in Exited THEN 1 ELSE 0)
    /\ (lastWait = "Err" ~> pc \in Exited)

\* a change was sorted, the next wait failed, and main has logged out and left
C16_Witness ==
    /\ lastWait = "Err"
    /\ passes = 2
    /\ waits = 2
    /\ pc = "exit_ok"
    /\ LogoutCalls = 1

\* the exit status of the process for each way main ends: Ok(()) returned by
\* main, an Err returned by main (`?`), a panic (`expect`)
ExitStatus(p) ==
    CASE p = "exit_ok" -> 0
      [] p = "exit_err" -> 1
      [] p = "panic" -> 101

\* C17: a process that ended after a fatal protocol error, a failed sort pass
\* or an error returned by the wait, has a non-zero exit status.
C17_FatalErrorExitsNonZero ==
    (pc \in Exited /\ (passRes \in PassErrors \/ lastWait = "Err"))
        => ExitStatus(pc) # 0

(***************************************************************************)
(* mailbox_from, character by character (checked under SpecFn)             *)
(***************************************************************************)
OneAt(s) == Cardinality({ i \in 1..Len(s) : s[i] = At }) = 1

\* C18: for an address local@domain the result of mailbox_from is as long as
\* the address; it begins with the domain, lower-cased, each '.' of it turned
\* into '_'; then comes one '.'; then the local part, lower-cased, with every
\* character of it kept in place, a '.' staying a '.'.
C18_LocalPartKept ==
    (fn = "mailbox_from" /\ OneAt(arg)) =>
        LET k == FirstIndex(arg, At)
            d == Len(arg) - k
        IN  /\ Len(ret) = Len(arg)
            /\ \A i \in 1..d :
                  ret[i] = IF arg[k + i] = Dot THEN Underscore
                           ELSE LowerChar(arg[k + i])
            /\ ret[d + 1] = Dot
            /\ \A j \in 1..(k - 1) :
                  /\ ret[d + 1 + j] = LowerChar(arg[j])
                  /\ (arg[j] = Dot <=> ret[d + 1 + j] = Dot)

\* a.B@a becomes a.a.b: the dot of the local part is still a dot
C18_Witness ==
    /\ fn = "mailbox_from"
    /\ arg = << "a", ".", "B", "@", "a" >>
    /\ ret = << "a", ".", "a", ".", "b" >>

(***************************************************************************)
(* Repeated calls within one pass (checked under Spec)                     *)
(***************************************************************************)
\* the calls of operation o for path p issued in the pass so far
CallsFor(o, p) == { k \in CallIdx : calls[k].op = o /\ calls[k].arg = p }

C20_NotifyOnlyAfterSuccess ==
    /\ [][ /\ (Len(tasks') = Len(tasks) + 1 =>
                  /\ passRes = "running" /\ passRes' = "Ok"
                  /\ todo = {}
                  /\ \A k \in CallIdx : calls[k].ok
                  /\ tasks'[Len(tasks')].touched = DOMAIN sorted)
           /\ (passRes' \in PassErrors => tasks' = tasks)
           /\ Len(tasks') >= Len(tasks)
         ]_vars
    /\ [](Len(tasks) = IF passRes \in {"Ok", "none"} THEN passes ELSE passes - 1)

\* the second pass moved one bucket and then failed at a create, subscribe or
\* move: the only task is the one of the first pass
C20_Witness ==
    /\ pc = "exit_err"
    /\ passRes = "Imap"
    /\ passes = 2
    /\ Len(tasks) = 1
    /\ \E k \in CallIdx : calls[k].op = "move" /\ calls[k].ok
    /\ calls[Len(calls)].op \in Mutating /\ ~calls[Len(calls)].ok

====
